---- MODULE Spec2Model ----
(***************************************************************************)
(* A model of elfo: the ELF identification block, file header, section-    *)
(* and program-header entries, the ELF container and the symbolic value    *)
(* resolution of elfo._util, at the level of bytes and stream positions.   *)
(***************************************************************************)
EXTENDS Integers, Sequences, FiniteSets, TLC

VARIABLES
    fd,         \* the bytes of the input stream (or the slice given to from_bytes)
    pos,        \* the stream position, fd.tell()
    byteorder,  \* the host's byte order, used by struct formats without a prefix
    op,         \* the operation applied last ("init" before any)
    arg,        \* the non-stream arguments of that operation
    res,        \* what it returned: [err |-> ..., val |-> ...]
    out         \* what encoding the returned object gave: [err |-> ..., val |-> ...]

vars == <<fd, pos, byteorder, op, arg, res, out>>

----------------------------------------------------------------------------
(* Python values and exceptions *)

None == [tag |-> "None"]

\* A Python int is kept as its base-256 digits, least significant first and
\* without leading zero digits, so that no value of a 64-bit field is cut.
IntVal(v) == [tag |-> "int", value |-> v]

\* a dataclasses.Field object, which is not a number
FieldObj(name) == [tag |-> "Field", name |-> name]

FlagMatch(v, flags) == [tag |-> "_FlagMatch", value |-> v, flags |-> flags]

IsInt(x) == x.tag \in {"int", "_EnumItem", "_EnumFlagItem", "_FlagMatch"}

NoErr == [type |-> "none"]

Err(type, what, value, kind) ==
    [type |-> type, what |-> what, value |-> value, kind |-> kind]

NotAnELF == Err("NotAnELF", "", <<>>, "")

ELFException(what, value) == Err("ELFException", what, value, "")

ValueError(what, value, kind) == Err("ValueError", what, value, kind)

AssertionError == Err("AssertionError", "", <<>>, "")

StructError == Err("struct.error", "", <<>>, "")

Ok(v) == [err |-> NoErr, val |-> v]

Fail(e) == [err |-> e, val |-> None]

IsOk(r) == r.err = NoErr

\* the outcome r of a step that left the stream at position p
At(r, p) == [err |-> r.err, val |-> r.val, pos |-> p]

\* prefix + packed + suffix, unless packing raised
Concat(prefix, packed, suffix) ==
    IF ~IsOk(packed) THEN packed ELSE Ok(prefix \o packed.val \o suffix)

----------------------------------------------------------------------------
(* Integers and bytes *)

Min(a, b) == IF a < b THEN a ELSE b

Max(a, b) == IF a > b THEN a ELSE b

Zeros(n) == [i \in 1..n |-> 0]

Reverse(s) == [i \in 1..Len(s) |-> s[Len(s) + 1 - i]]

\* the digits without the leading (last) zero digits
RECURSIVE Norm(_)
Norm(s) ==
    IF s = <<>> THEN <<>>
    ELSE IF s[Len(s)] = 0 THEN Norm(SubSeq(s, 1, Len(s) - 1))
    ELSE s

\* the digits of a number below 2^31
RECURSIVE Num(_)
Num(n) == IF n = 0 THEN <<>> ELSE <<n % 256>> \o Num(n \div 256)

\* the number of at most four digits (below 2^31)
RECURSIVE Val(_)
Val(d) == IF d = <<>> THEN 0 ELSE Head(d) + 256 * Val(Tail(d))

\* a & b on numbers
RECURSIVE BitAnd(_, _)
BitAnd(a, b) ==
    IF a = 0 \/ b = 0 THEN 0
    ELSE (IF a % 2 = 1 /\ b % 2 = 1 THEN 1 ELSE 0) + 2 * BitAnd(a \div 2, b \div 2)

\* a & b on digits
DigitsAnd(a, b) ==
    Norm([i \in 1..Min(Len(a), Len(b)) |-> BitAnd(a[i], b[i])])

\* the w bytes of the digits d, least significant first
ToLE(d, w) == [i \in 1..w |-> IF i <= Len(d) THEN d[i] ELSE 0]

\* Python's s[a:b]: negative indices count from the end, both ends are clamped
PySlice(s, a, b) ==
    LET n  == Len(s)
        lo == IF a < 0 THEN Max(a + n, 0) ELSE Min(a, n)
        hi == IF b < 0 THEN Max(b + n, 0) ELSE Min(b, n)
    IN  IF hi <= lo THEN <<>> ELSE SubSeq(s, lo + 1, hi)

\* fd.read(n) at position p: at most n bytes, fewer at the end of the stream
Read(stream, p, n) == SubSeq(stream, p + 1, Min(p + n, Len(stream)))

\* fd.read() at position p: the rest of the stream
ReadAll(stream, p) == SubSeq(stream, p + 1, Len(stream))

----------------------------------------------------------------------------
(* struct: a format is [order |-> "<" | ">" | "@", codes |-> <<"H", "I", ...>>] *)

CodeSize(c) == CASE c = "B" -> 1 [] c = "H" -> 2 [] c = "I" -> 4 [] c = "Q" -> 8

\* native mode ("@", no prefix) aligns every item to its size; "<" and ">" do not
AlignUp(off, fmt, c) ==
    IF fmt.order = "@" THEN ((off + CodeSize(c) - 1) \div CodeSize(c)) * CodeSize(c)
    ELSE off

\* the offset of item i (1-based) of the format
RECURSIVE ItemOffset(_, _)
ItemOffset(fmt, i) ==
    IF i = 1 THEN 0
    ELSE AlignUp(ItemOffset(fmt, i - 1) + CodeSize(fmt.codes[i - 1]), fmt, fmt.codes[i])

calcsize(fmt) ==
    IF fmt.codes = <<>> THEN 0
    ELSE ItemOffset(fmt, Len(fmt.codes)) + CodeSize(fmt.codes[Len(fmt.codes)])

IsLittle(fmt, host) == fmt.order = "<" \/ (fmt.order = "@" /\ host = "little")

\* struct.unpack(fmt, data): the data must have exactly calcsize(fmt) bytes
struct_unpack(fmt, data, host) ==
    IF Len(data) # calcsize(fmt) THEN Fail(StructError)
    ELSE Ok([i \in 1..Len(fmt.codes) |->
            LET raw == SubSeq(data, ItemOffset(fmt, i) + 1,
                              ItemOffset(fmt, i) + CodeSize(fmt.codes[i]))
            IN  Norm(IF IsLittle(fmt, host) THEN raw ELSE Reverse(raw))])

\* struct.pack(fmt, *args): one integer in range per item, padding bytes are zero
struct_pack(fmt, args, host) ==
    IF Len(args) # Len(fmt.codes) THEN Fail(StructError)
    ELSE IF \E i \in 1..Len(args) :
                \/ ~IsInt(args[i])
                \/ Len(args[i].value) > CodeSize(fmt.codes[i])
         THEN Fail(StructError)
    ELSE Ok([k \in 1..calcsize(fmt) |->
            IF \E i \in 1..Len(args) :
                    k - 1 \in ItemOffset(fmt, i)..(ItemOffset(fmt, i) + CodeSize(fmt.codes[i]) - 1)
            THEN LET i == CHOOSE j \in 1..Len(args) :
                            k - 1 \in ItemOffset(fmt, j)..(ItemOffset(fmt, j) + CodeSize(fmt.codes[j]) - 1)
                     enc == ToLE(args[i].value, CodeSize(fmt.codes[i]))
                     b   == IF IsLittle(fmt, host) THEN enc ELSE Reverse(enc)
                 IN  b[k - ItemOffset(fmt, i)]
            ELSE 0])

----------------------------------------------------------------------------
(* elfo._data: the constant tables.  Every class is the sequence of its    *)
(* (name, value) attributes in definition order, as vars(cls) yields them. *)

EI_PAD == 9

EI_NIDENT == 16

Kinds == {"ELFCLASS", "ELFDATA", "OSABI", "ET", "EM", "EV", "SHT", "SHF"}

Attributes(cls) ==
    CASE cls = "ELFCLASS" -> << <<"_32", 1>>, <<"_64", 2>> >>
      [] cls = "ELFDATA"  -> << <<"LSB", 1>>, <<"MSB", 2>> >>
      [] cls = "OSABI"    -> << <<"SYSV", 0>>, <<"LINUX", 3>> >>
      [] cls = "ET"       -> << <<"NONE", 0>>, <<"REL", 1>>, <<"EXEC", 2>>, <<"DYN", 3>> >>
      [] cls = "EM"       -> << <<"NONE", 0>>, <<"_386", 3>>, <<"X86_64", 62>> >>
      [] cls = "EV"       -> << <<"NONE", 0>>, <<"CURRENT", 1>> >>
      [] cls = "SHT"      -> << <<"NULL", 0>>, <<"PROGBITS", 1>>, <<"SYMTAB", 2>>,
                                <<"STRTAB", 3>> >>
      [] cls = "SHF"      -> << <<"WRITE", 1>>, <<"ALLOC", 2>>, <<"EXECINSTR", 4>>,
                                <<"MASKOS", 267386880>> >>

\* the item_cls keyword of the class statement
item_cls(cls) == IF cls = "SHF" THEN "_EnumFlagItem" ELSE "_EnumItem"

----------------------------------------------------------------------------
(* elfo._util *)

\* _EnumMeta.__new__: every integer attribute becomes an item_cls(value, name)
EnumMeta_new(cls) ==
    [i \in 1..Len(Attributes(cls)) |->
        [tag   |-> item_cls(cls),
         name  |-> Attributes(cls)[i][1],
         value |-> Num(Attributes(cls)[i][2])]]

\* the item bound to the attribute key
ItemNamed(items, key) == items[CHOOSE i \in 1..Len(items) : items[i].name = key]

\* cls.KEY
Attr(cls, key) == ItemNamed(EnumMeta_new(cls), key)

\* _EnumFlagItem.__eq__(self, other): bool(self & other)
EnumFlagItem_eq(self, other) == DigitsAnd(self.value, other.value) # <<>>

\* Python's a == b on int-like values.  _EnumFlagItem overrides __eq__; the
\* other classes inherit int.__eq__.  The right operand's __eq__ runs first
\* only when its class is a subclass of the left operand's class.
PyEq(a, b) ==
    IF a.tag = "_EnumFlagItem" THEN EnumFlagItem_eq(a, b)
    ELSE IF b.tag = "_EnumFlagItem" /\ a.tag \in {"int", "_EnumItem"}
         THEN EnumFlagItem_eq(b, a)
    ELSE a.value = b.value

\* the body of from_value, items being the items of cls in definition order
from_value_among(cls, items, value) ==
    IF item_cls(cls) = "_EnumFlagItem"
    THEN Ok(FlagMatch(value, items))
    ELSE IF \E i \in 1..Len(items) : PyEq(items[i], IntVal(value))
         THEN Ok(items[CHOOSE i \in 1..Len(items) :
                    /\ PyEq(items[i], IntVal(value))
                    /\ \A j \in 1..(i - 1) : ~PyEq(items[j], IntVal(value))])
         ELSE Fail(ValueError("Item not found", value, cls))

\* _Enum.from_value(cls, value)
from_value(cls, value) == from_value_among(cls, EnumMeta_new(cls), value)

\* from_value_fallback without its except clause
from_value_fallback_strict(cls, value) == from_value(cls, value)

\* the except clause of from_value_fallback, r being what from_value gave
except_ValueError(r, value) ==
    IF r.err.type = "ValueError" THEN Ok(IntVal(value)) ELSE r

\* _Enum.from_value_fallback(cls, value)
from_value_fallback(cls, value) == except_ValueError(from_value(cls, value), value)

\* _FlagMatch._values: flag.name -> (flag == self)
FlagMatch_values(self) ==
    [i \in 1..Len(self.flags) |-> <<self.flags[i].name, PyEq(self.flags[i], self)>>]

----------------------------------------------------------------------------
(* elfo: ELFHeader.types.e_ident *)

Magic == <<127, 69, 76, 70>>

\* the body of _unpack after data = fd.read(size), read at position p
_unpack_data(fmt, data, p, host) ==
    IF data = <<>> THEN At(Fail(AssertionError), p)
    ELSE At(struct_unpack(fmt, data, host), p + Len(data))

\* _unpack(description, fd) at position p: [err, val, pos]
_unpack(fmt, stream, p, host) ==
    _unpack_data(fmt, Read(stream, p, calcsize(fmt)), p, host)

\* e_ident.__post_init__, c, d and o being what from_value gave for the class,
\* the data encoding and the OS/ABI, resolved in this order
e_ident_post_init(magic, c, d, file_version, o, abi_version) ==
    IF ~IsOk(c) THEN c
    ELSE IF ~IsOk(d) THEN d
    ELSE IF ~IsOk(o) THEN o
    ELSE Ok([tag                 |-> "e_ident",
             file_identification |-> magic,
             file_class          |-> c.val,
             data_encoding       |-> d.val,
             file_version        |-> IntVal(file_version),
             os_abi              |-> o.val,
             abi_version         |-> IntVal(abi_version)])

\* e_ident(...): the dataclass constructor followed by __post_init__
e_ident_init(magic, file_class, data_encoding, file_version, os_abi, abi_version) ==
    e_ident_post_init(magic, from_value("ELFCLASS", file_class),
                      from_value("ELFDATA", data_encoding), file_version,
                      from_value("OSABI", os_abi), abi_version)

\* the end of e_ident.from_fd: obj is cls(magic, *unpacked), built at position
\* p; the padding is read (and dropped) before obj is returned
e_ident_skip_padding(obj, stream, p) ==
    IF ~IsOk(obj) THEN At(obj, p)
    ELSE At(obj, p + Len(Read(stream, p, EI_NIDENT - EI_PAD + 1)))

\* e_ident.from_fd after the magic: u is what _unpack('BBBBB', fd) gave
e_ident_from_fields(u, stream) ==
    IF ~IsOk(u) THEN u
    ELSE e_ident_skip_padding(
             e_ident_init(Magic, u.val[1], u.val[2], u.val[3], u.val[4], u.val[5]),
             stream, u.pos)

\* the five fields are unpacked first, the magic is compared afterwards
e_ident_magic_after_fields(magic, u, stream) ==
    IF ~IsOk(u) THEN u
    ELSE IF magic # Magic THEN At(Fail(NotAnELF), u.pos)
    ELSE e_ident_from_fields(u, stream)

\* e_ident.from_fd comparing the magic only after the five fields are unpacked
e_ident_from_fd_late_check(stream, p, host) ==
    LET magic == Read(stream, p, 4)
    IN  e_ident_magic_after_fields(
            magic,
            _unpack([order |-> "@", codes |-> <<"B", "B", "B", "B", "B">>],
                    stream, p + Len(magic), host),
            stream)

\* e_ident.from_fd(fd) at position p: [err, val, pos]
e_ident_from_fd(stream, p, host) ==
    LET magic == Read(stream, p, 4)
    IN  IF magic # Magic THEN At(Fail(NotAnELF), p + Len(magic))
        ELSE e_ident_from_fields(
                 _unpack([order |-> "@", codes |-> <<"B", "B", "B", "B", "B">>],
                         stream, p + Len(magic), host),
                 stream)

\* e_ident.endianess
endianess(e_ident) ==
    IF PyEq(e_ident.data_encoding, Attr("ELFDATA", "LSB")) THEN Ok("<")
    ELSE IF PyEq(e_ident.data_encoding, Attr("ELFDATA", "LSB")) THEN Ok(">")
    ELSE Fail(ValueError("Unkown endianess", e_ident.data_encoding.value, ""))

\* e_ident.native
native(e_ident) ==
    IF PyEq(e_ident.file_class, Attr("ELFCLASS", "_32")) THEN Ok("I")
    ELSE IF PyEq(e_ident.file_class, Attr("ELFCLASS", "_64")) THEN Ok("Q")
    ELSE Fail(ValueError("Unkown class", e_ident.file_class.value, ""))

\* e_ident.__len__
e_ident_len(e_ident) == EI_NIDENT

\* e_ident.__bytes__
e_ident_bytes(e_ident, host) ==
    Concat(e_ident.file_identification,
           struct_pack([order |-> "@", codes |-> <<"B", "B", "B", "B", "B">>],
                       <<e_ident.file_class, e_ident.data_encoding,
                         e_ident.file_version, e_ident.os_abi,
                         e_ident.abi_version>>, host),
           Zeros(EI_NIDENT - EI_PAD + 1))

----------------------------------------------------------------------------
(* elfo: ELFSectionHeader and ELFProgramHeader layouts *)

\* the f-string of ELFSectionHeader._format: e is e_ident.endianess and n
\* is e_ident.native, evaluated in this order
ELFSectionHeader_fstring(e, n) ==
    IF ~IsOk(e) THEN e
    ELSE IF ~IsOk(n) THEN n
    ELSE Ok([order |-> e.val,
             codes |-> <<"I", "I", n.val, n.val, n.val, n.val, "I", "I", n.val, n.val>>])

\* ELFSectionHeader._format(e_ident)
ELFSectionHeader_format(e_ident) ==
    ELFSectionHeader_fstring(endianess(e_ident), native(e_ident))

\* ELFProgramHeader._format(e_ident): no byte-order prefix, hence native mode
ELFProgramHeader_format(e_ident) ==
    IF PyEq(e_ident.file_class, Attr("ELFCLASS", "_32"))
    THEN Ok([order |-> "@", codes |-> <<"I", "I", "I", "I", "I", "I", "I", "I">>])
    ELSE IF PyEq(e_ident.file_class, Attr("ELFCLASS", "_64"))
    THEN Ok([order |-> "@", codes |-> <<"I", "I", "Q", "Q", "Q", "Q", "Q", "Q">>])
    ELSE Fail(ValueError("Unkown class", e_ident.file_class.value, ""))

\* cls._format(e_ident) for the two _DeriveSerialization classes
format_of(cls, e_ident) ==
    IF cls = "ELFSectionHeader" THEN ELFSectionHeader_format(e_ident)
    ELSE ELFProgramHeader_format(e_ident)

\* struct.calcsize(f), f being what cls._format(e_ident) gave
calcsize_of(f) == IF ~IsOk(f) THEN f ELSE Ok(calcsize(f.val))

\* _DeriveSerialization.size(e_ident)
size(cls, e_ident) == calcsize_of(format_of(cls, e_ident))

----------------------------------------------------------------------------
(* elfo: ELFHeader *)

\* ELFHeader.__len__ without the branch on the class
ELFHeader_len_one_class(e_ident) == Ok(52)

\* ELFHeader.__len__ on the header's e_ident
ELFHeader_len(e_ident) ==
    IF PyEq(e_ident.file_class, Attr("ELFCLASS", "_32")) THEN Ok(52)
    ELSE IF PyEq(e_ident.file_class, Attr("ELFCLASS", "_64")) THEN Ok(64)
    ELSE Fail(ValueError("Unkown class", e_ident.file_class.value, ""))

\* the f-string of ELFHeader._format: e is e_ident.endianess and n is
\* e_ident.native, evaluated in this order
ELFHeader_fstring(e, n) ==
    IF ~IsOk(e) THEN e
    ELSE IF ~IsOk(n) THEN n
    ELSE Ok([order |-> e.val,
             codes |-> <<"H", "H", "I", n.val, n.val, n.val,
                         "I", "H", "H", "H", "H", "H", "H">>])

\* ELFHeader._format(e_ident)
ELFHeader_format(e_ident) == ELFHeader_fstring(endianess(e_ident), native(e_ident))

\* ELFHeader.__post_init__: t, m and v are what the resolution of e_type,
\* e_machine and e_version gave, ln is len(self) and sz is
\* ELFSectionHeader.size(e_ident); they are evaluated in this order
ELFHeader_post_init(e_ident, a, t, m, v, ln, sz) ==
    IF ~IsOk(t) THEN t
    ELSE IF ~IsOk(m) THEN m
    ELSE IF ~IsOk(v) THEN v
    ELSE IF ~IsOk(ln) THEN ln
    ELSE IF a[8] # Num(ln.val) THEN Fail(ELFException("Invalid e_ehsize", a[8]))
    ELSE IF ~IsOk(sz) THEN sz
    ELSE IF a[11] # Num(sz.val) THEN Fail(ELFException("Invalid e_shentsize", a[11]))
    ELSE Ok([tag         |-> "ELFHeader",
             e_ident     |-> e_ident,
             e_type      |-> t.val,
             e_machine   |-> m.val,
             e_version   |-> v.val,
             e_entry     |-> IntVal(a[4]),
             e_phoff     |-> IntVal(a[5]),
             e_shoff     |-> IntVal(a[6]),
             e_flags     |-> IntVal(a[7]),
             e_ehsize    |-> IntVal(a[8]),
             e_phentsize |-> IntVal(a[9]),
             e_phnum     |-> IntVal(a[10]),
             e_shentsize |-> IntVal(a[11]),
             e_shnum     |-> IntVal(a[12]),
             e_shstrndx  |-> IntVal(a[13])])

\* ELFHeader(e_ident, *args): the dataclass constructor followed by __post_init__
ELFHeader_init(e_ident, a) ==
    ELFHeader_post_init(e_ident, a, from_value("ET", a[1]), from_value("EM", a[2]),
                        from_value_fallback("EV", a[3]), ELFHeader_len(e_ident),
                        size("ELFSectionHeader", e_ident))

\* the end of ELFHeader.from_fd: u is what _unpack(cls._format(e_ident), fd) gave
ELFHeader_from_fields(e_ident, u) ==
    IF ~IsOk(u) THEN u ELSE At(ELFHeader_init(e_ident, u.val), u.pos)

\* ELFHeader.from_fd with the format f computed, the stream being at i.pos
ELFHeader_from_format(i, f, stream, host) ==
    IF ~IsOk(f) THEN At(f, i.pos)
    ELSE ELFHeader_from_fields(i.val, _unpack(f.val, stream, i.pos, host))

\* ELFHeader.from_fd after its first line: i is what e_ident.from_fd(fd) gave
ELFHeader_from_ident(i, stream, host) ==
    IF ~IsOk(i) THEN i
    ELSE ELFHeader_from_format(i, ELFHeader_format(i.val), stream, host)

\* ELFHeader.from_fd(fd) at position p: [err, val, pos]
ELFHeader_from_fd(stream, p, host) ==
    ELFHeader_from_ident(e_ident_from_fd(stream, p, host), stream, host)

\* the sum of ELFHeader.__bytes__: i is bytes(self.e_ident) and f is
\* self._format(self.e_ident), evaluated in this order
ELFHeader_bytes_sum(h, i, f, host) ==
    IF ~IsOk(i) THEN i
    ELSE IF ~IsOk(f) THEN f
    ELSE Concat(i.val,
                struct_pack(f.val,
                            <<h.e_type, h.e_machine, h.e_version, h.e_entry, h.e_phoff,
                              h.e_shoff, h.e_flags, h.e_ehsize, h.e_phentsize,
                              h.e_phnum, h.e_shentsize, h.e_shnum, h.e_shstrndx>>,
                            host),
                <<>>)

\* ELFHeader.__bytes__
ELFHeader_bytes(h, host) ==
    ELFHeader_bytes_sum(h, e_ident_bytes(h.e_ident, host), ELFHeader_format(h.e_ident),
                        host)

----------------------------------------------------------------------------
(* elfo: _DeriveSerialization, ELFSectionHeader, ELFProgramHeader *)

\* ELFSectionHeader.__post_init__: t and f are what the resolution of sh_type
\* and sh_flags gave, in this order
ELFSectionHeader_post_init(e_ident, a, t, f) ==
    IF ~IsOk(t) THEN t
    ELSE IF ~IsOk(f) THEN f
    ELSE Ok([tag          |-> "ELFSectionHeader",
             e_ident      |-> e_ident,
             sh_name      |-> IntVal(a[1]),
             sh_type      |-> t.val,
             sh_flags     |-> f.val,
             sh_addr      |-> IntVal(a[4]),
             sh_offset    |-> IntVal(a[5]),
             sh_size      |-> IntVal(a[6]),
             sh_link      |-> IntVal(a[7]),
             sh_info      |-> IntVal(a[8]),
             sh_addralign |-> IntVal(a[9]),
             sh_entsize   |-> IntVal(a[10])])

\* ELFSectionHeader(e_ident, *args): the dataclass constructor (10 values
\* after _e_ident, else TypeError) followed by __post_init__
ELFSectionHeader_init(e_ident, a) ==
    IF Len(a) # 10 THEN Fail(Err("TypeError", "", Num(Len(a)), ""))
    ELSE ELFSectionHeader_post_init(e_ident, a, from_value_fallback("SHT", a[2]),
                                    from_value("SHF", a[3]))

\* ELFProgramHeader.__init__ assigning the 64-bit order under both classes
ELFProgramHeader_init_one_order(e_ident, a) ==
    IF Len(a) # 8 THEN Fail(ValueError("Required 8 arguments", Num(Len(a)), ""))
    ELSE Ok([tag      |-> "ELFProgramHeader",
             e_ident  |-> e_ident,
             p_type   |-> IntVal(a[1]),
             p_flags  |-> IntVal(a[2]),
             p_offset |-> IntVal(a[3]),
             p_vaddr  |-> IntVal(a[4]),
             p_paddr  |-> IntVal(a[5]),
             p_filesz |-> IntVal(a[6]),
             p_memsz  |-> IntVal(a[7]),
             p_align  |-> IntVal(a[8])])

\* ELFProgramHeader.__init__(_e_ident, *args)
ELFProgramHeader_init(e_ident, a) ==
    IF Len(a) # 8 THEN Fail(ValueError("Required 8 arguments", Num(Len(a)), ""))
    ELSE IF PyEq(e_ident.file_class, Attr("ELFCLASS", "_32"))
    THEN Ok([tag      |-> "ELFProgramHeader",
             e_ident  |-> e_ident,
             p_type   |-> IntVal(a[1]),
             p_offset |-> IntVal(a[2]),
             p_vaddr  |-> IntVal(a[3]),
             p_paddr  |-> IntVal(a[4]),
             p_filesz |-> IntVal(a[5]),
             p_memsz  |-> IntVal(a[6]),
             p_flags  |-> IntVal(a[7]),
             p_align  |-> IntVal(a[8])])
    ELSE IF PyEq(e_ident.file_class, Attr("ELFCLASS", "_64"))
    THEN Ok([tag      |-> "ELFProgramHeader",
             e_ident  |-> e_ident,
             p_type   |-> IntVal(a[1]),
             p_flags  |-> IntVal(a[2]),
             p_offset |-> IntVal(a[3]),
             p_vaddr  |-> IntVal(a[4]),
             p_paddr  |-> IntVal(a[5]),
             p_filesz |-> IntVal(a[6]),
             p_memsz  |-> IntVal(a[7]),
             p_align  |-> IntVal(a[8])])
    ELSE Fail(ValueError("Unkown class", e_ident.file_class.value, ""))

\* cls(e_ident, *args) for the two _DeriveSerialization classes
init_of(cls, e_ident, a) ==
    IF cls = "ELFSectionHeader" THEN ELFSectionHeader_init(e_ident, a)
    ELSE ELFProgramHeader_init(e_ident, a)

\* cls(e_ident, *u), u being what struct.unpack gave
init_unpacked(cls, e_ident, u) ==
    IF ~IsOk(u) THEN u ELSE init_of(cls, e_ident, u.val)

\* from_bytes with the format f computed
from_bytes_format(cls, f, data, e_ident, host) ==
    IF ~IsOk(f) THEN f
    ELSE init_unpacked(cls, e_ident, struct_unpack(f.val, data, host))

\* _DeriveSerialization.from_bytes(data, e_ident)
from_bytes(cls, data, e_ident, host) ==
    from_bytes_format(cls, format_of(cls, e_ident), data, e_ident, host)

\* the list comprehension: each[i] is what from_bytes gave for element i
list_of(each, count) ==
    LET bad == {i \in 0..(count - 1) : ~IsOk(each[i])}
    IN  IF bad # {} THEN each[CHOOSE i \in bad : \A j \in bad : i <= j]
        ELSE Ok([k \in 1..count |-> each[k - 1].val])

\* multiple_from_bytes with sz = cls.size(e_ident) computed
multiple_of_size(cls, sz, data, count, e_ident, host) ==
    IF ~IsOk(sz) THEN sz
    ELSE list_of([i \in 0..(count - 1) |->
                     from_bytes(cls, PySlice(data, i * sz.val, (i + 1) * sz.val),
                                e_ident, host)],
                 count)

\* _DeriveSerialization.multiple_from_bytes(data, count, e_ident): the list
\* comprehension raises what its first failing element raises
multiple_from_bytes(cls, data, count, e_ident, host) ==
    multiple_of_size(cls, size(cls, e_ident), data, count, e_ident, host)

\* dataclasses.fields(self): the Field objects of the class, _e_ident included
dataclasses_fields(entry) ==
    IF entry.tag = "ELFSectionHeader"
    THEN <<FieldObj("_e_ident"), FieldObj("sh_name"), FieldObj("sh_type"),
           FieldObj("sh_flags"), FieldObj("sh_addr"), FieldObj("sh_offset"),
           FieldObj("sh_size"), FieldObj("sh_link"), FieldObj("sh_info"),
           FieldObj("sh_addralign"), FieldObj("sh_entsize")>>
    ELSE <<FieldObj("_e_ident"), FieldObj("p_type"), FieldObj("p_flags"),
           FieldObj("p_offset"), FieldObj("p_vaddr"), FieldObj("p_paddr"),
           FieldObj("p_filesz"), FieldObj("p_memsz"), FieldObj("p_align")>>

\* struct.pack(f, *dataclasses.fields(self)), f being what self._format gave
pack_fields(f, entry, host) ==
    IF ~IsOk(f) THEN f ELSE struct_pack(f.val, dataclasses_fields(entry), host)

\* _DeriveSerialization.__bytes__
entry_bytes(entry, host) ==
    pack_fields(format_of(entry.tag, entry.e_ident), entry, host)

----------------------------------------------------------------------------
(* elfo: ELF *)

\* the return of ELF.from_fd: sh and ph are what multiple_from_bytes gave for
\* the section headers and the program headers, in this order
ELF_from_tables(hd, data, sh, ph, end) ==
    IF ~IsOk(sh) THEN At(sh, end)
    ELSE IF ~IsOk(ph) THEN At(ph, end)
    ELSE At(Ok([tag             |-> "ELF",
                header          |-> hd,
                section_headers |-> sh.val,
                program_headers |-> ph.val,
                data            |-> data]),
            end)

\* ELF.from_fd after data = fd.read(), which left the stream at end
ELF_from_data(hd, data, end, host) ==
    LET hlen == ELFHeader_len(hd.e_ident).val
        soff == Val(hd.e_shoff.value) - hlen
        poff == Val(hd.e_phoff.value) - hlen
    IN  IF data = <<>> THEN At(Fail(AssertionError), end)
        ELSE ELF_from_tables(
                 hd, data,
                 multiple_from_bytes("ELFSectionHeader",
                     PySlice(data, soff,
                             soff + Val(hd.e_shentsize.value) * Val(hd.e_shnum.value)),
                     Val(hd.e_shnum.value), hd.e_ident, host),
                 multiple_from_bytes("ELFProgramHeader",
                     PySlice(data, poff,
                             poff + Val(hd.e_phentsize.value) * Val(hd.e_phnum.value)),
                     Val(hd.e_phnum.value), hd.e_ident, host),
                 end)

\* ELF.from_fd after its first line: h is what ELFHeader.from_fd(fd) gave
ELF_from_header(h, stream, host) ==
    IF ~IsOk(h) THEN h
    ELSE ELF_from_data(h.val, ReadAll(stream, h.pos), Len(stream), host)

\* ELF.from_fd(fd) at position p: [err, val, pos]
ELF_from_fd(stream, p, host) ==
    ELF_from_header(ELFHeader_from_fd(stream, p, host), stream, host)

\* ELF.__bytes__ without the retained body
ELF_bytes_header_only(elf, host) == ELFHeader_bytes(elf.header, host)

\* ELF.__bytes__
ELF_bytes(elf, host) == Concat(<<>>, ELFHeader_bytes(elf.header, host), elf.data)

----------------------------------------------------------------------------
(* The input streams.  A stream is built from a record of the values its   *)
(* writer put on the wire, which the state keeps in arg.                   *)

MaxNum == 2      \* table entry counts range over 0..MaxNum

MaxSeed == 1     \* body contents range over the patterns 0..MaxSeed

MaxTrunc == 54   \* truncated streams keep 0..MaxTrunc bytes

\* the file header size, section-header entry size and program-header entry
\* size a writer of class c uses
WireEhsize(c) == IF c = 2 THEN 64 ELSE 52

WireShentsize(c) == IF c = 2 THEN 64 ELSE 40

WirePhentsize(c) == IF c = 2 THEN 56 ELSE 32

\* v in w bytes, in the byte order the identification block declares
Wire(v, w, enc) == IF enc = 2 THEN Reverse(ToLE(Num(v), w)) ELSE ToLE(Num(v), w)

Body(len, seed) == [i \in 1..len |-> (seed * (i + 6)) % 256]

MkFile(p) ==
    LET n    == IF p.cls = 2 THEN 8 ELSE 4
        full ==    p.magic
                \o <<p.cls, p.enc, p.ver, p.osabi, p.abiver>>
                \o [i \in 1..p.padlen |-> p.padbyte]
                \o Wire(p.type, 2, p.enc) \o Wire(p.machine, 2, p.enc)
                \o Wire(p.version, 4, p.enc) \o Wire(p.entry, n, p.enc)
                \o Wire(p.phoff, n, p.enc) \o Wire(p.shoff, n, p.enc)
                \o Wire(p.flags, 4, p.enc) \o Wire(p.ehsize, 2, p.enc)
                \o Wire(p.phentsize, 2, p.enc) \o Wire(p.phnum, 2, p.enc)
                \o Wire(p.shentsize, 2, p.enc) \o Wire(p.shnum, 2, p.enc)
                \o Wire(p.shstrndx, 2, p.enc)
                \o Body(p.bodylen, p.seed)
    IN  IF p.trunc < 0 THEN full ELSE SubSeq(full, 1, Min(p.trunc, Len(full)))

\* a well-formed file of class c with empty tables, laid out as the decoder
\* reads it (EI_NIDENT - EI_PAD + 1 bytes after the five identification fields)
Base(c) ==
    [family |-> "file", magic |-> Magic, cls |-> c, enc |-> 1, ver |-> 1, osabi |-> 0,
     abiver |-> 0, padlen |-> 8, padbyte |-> 0, type |-> 2, machine |-> 62,
     version |-> 1, entry |-> 4096, phoff |-> 0, shoff |-> 0, flags |-> 0,
     ehsize |-> WireEhsize(c), phentsize |-> WirePhentsize(c), phnum |-> 0,
     shentsize |-> WireShentsize(c), shnum |-> 0, shstrndx |-> 0,
     bodylen |-> 4, seed |-> 1, trunc |-> -1]

\* identification blocks: every field right or wrong, in the layout of the
\* format (7 padding bytes) and in the layout the decoder reads (8)
IdentParams ==
    {[Base(c) EXCEPT !.enc = e, !.osabi = o, !.padlen = pad[1], !.padbyte = pad[2],
                     !.ver = v, !.abiver = v] :
        c \in {1, 2, 3}, e \in {1, 2, 0}, o \in {0, 9}, v \in {0, 1},
        pad \in {<<7, 0>>, <<8, 0>>, <<8, 255>>, <<8, 1>>}}

\* headers: every resolved or validated header field right or wrong
HeaderParams ==
    {[Base(c) EXCEPT !.enc = e, !.type = tm[1], !.machine = tm[2], !.version = v,
                     !.ehsize = eh, !.shentsize = sh] :
        c \in {1, 2}, e \in {1, 2}, tm \in {<<2, 62>>, <<9, 62>>, <<3, 99>>},
        v \in {1, 7}, eh \in {52, 64}, sh \in {40, 64}}

\* section-header tables: a valid header whose table offset and count vary
SectionTablesOf(c) ==
    {[Base(c) EXCEPT !.shoff = so, !.shnum = sn, !.bodylen = bl, !.seed = sd] :
        so \in {0, WireEhsize(c), WireEhsize(c) + 60}, sn \in 0..MaxNum,
        bl \in {0, 70, 200}, sd \in 0..MaxSeed}

\* program-header tables: offset, count and declared entry size vary
ProgramTablesOf(c) ==
    {[Base(c) EXCEPT !.phoff = po, !.phentsize = pe, !.phnum = pn,
                     !.bodylen = bl, !.seed = sd] :
        po \in {0, WireEhsize(c), WireEhsize(c) + 60},
        pe \in {0, WirePhentsize(c), WirePhentsize(c) + 200}, pn \in 0..MaxNum,
        bl \in {0, 70, 200}, sd \in 0..MaxSeed}

\* both tables, one after the other in the body
BothTablesOf(c) ==
    {[Base(c) EXCEPT !.shoff = WireEhsize(c) + pn * WirePhentsize(c), !.shnum = sn,
                     !.phoff = WireEhsize(c), !.phnum = pn,
                     !.padbyte = pb, !.bodylen = 250, !.seed = sd] :
        sn \in 1..MaxNum, pn \in 1..MaxNum, pb \in {0, 1}, sd \in 0..MaxSeed}

TableParams ==
    UNION {SectionTablesOf(c) \cup ProgramTablesOf(c) \cup BothTablesOf(c) : c \in {1, 2}}

\* streams that end early, and streams that do not start with the magic
BrokenParams ==
       {[Base(1) EXCEPT !.trunc = t] : t \in 0..MaxTrunc}
  \cup {[Base(c) EXCEPT !.magic = m, !.trunc = t] :
            c \in {1, 2}, t \in {-1, 2, 3},
            m \in {<<127, 69, 76, 71>>, <<0, 69, 76, 70>>, <<77, 90, 144, 0>>,
                   <<69, 76, 70, 127>>}}

FileParams == IdentParams \cup HeaderParams \cup TableParams \cup BrokenParams

----------------------------------------------------------------------------
(* Decoding a stream and encoding what was decoded *)

Nothing == [err |-> NoErr, val |-> None]

Init ==
    /\ \E p \in FileParams : arg = p /\ fd = MkFile(p)
    /\ pos = 0
    /\ byteorder \in {"little", "big"}
    /\ op = "init"
    /\ res = Nothing
    /\ out = Nothing

\* a decoder returned r: its value or its exception, and where it left the stream
Returned(r) ==
    /\ res' = [err |-> r.err, val |-> r.val]
    /\ pos' = r.pos

\* obj = ELFHeader.types.e_ident.from_fd(fd)
IdentFromFd ==
    /\ op = "init"
    /\ Returned(e_ident_from_fd(fd, pos, byteorder))
    /\ op' = "e_ident.from_fd"
    /\ UNCHANGED <<fd, byteorder, arg, out>>

\* obj = ELFHeader.from_fd(fd)
HeaderFromFd ==
    /\ op = "init"
    /\ Returned(ELFHeader_from_fd(fd, pos, byteorder))
    /\ op' = "ELFHeader.from_fd"
    /\ UNCHANGED <<fd, byteorder, arg, out>>

\* obj = ELF.from_fd(fd)
ELFFromFd ==
    /\ op = "init"
    /\ Returned(ELF_from_fd(fd, pos, byteorder))
    /\ op' = "ELF.from_fd"
    /\ UNCHANGED <<fd, byteorder, arg, out>>

\* bytes(obj) on the identification block decoded
IdentBytes ==
    /\ op = "e_ident.from_fd" /\ IsOk(res)
    /\ out' = e_ident_bytes(res.val, byteorder)
    /\ op' = "e_ident.__bytes__"
    /\ UNCHANGED <<fd, pos, byteorder, arg, res>>

\* bytes(obj) on the file header decoded
HeaderBytes ==
    /\ op = "ELFHeader.from_fd" /\ IsOk(res)
    /\ out' = ELFHeader_bytes(res.val, byteorder)
    /\ op' = "ELFHeader.__bytes__"
    /\ UNCHANGED <<fd, pos, byteorder, arg, res>>

\* bytes(obj) on the container decoded
ELFBytes ==
    /\ op = "ELF.from_fd" /\ IsOk(res)
    /\ out' = ELF_bytes(res.val, byteorder)
    /\ op' = "ELF.__bytes__"
    /\ UNCHANGED <<fd, pos, byteorder, arg, res>>

Next ==
    \/ IdentFromFd
    \/ HeaderFromFd
    \/ ELFFromFd
    \/ IdentBytes
    \/ HeaderBytes
    \/ ELFBytes

Spec == Init /\ [][Next]_vars

----------------------------------------------------------------------------
(* Decoding single table entries from slices, and the record sizes *)

MaxVal == 2      \* the first field value of a hand-built entry ranges over 0..MaxVal

\* the field values of a hand-built entry: field i holds k + step * i
Logical(k, step) == [i \in 1..10 |-> k + step * i]

\* a program-header entry as a writer of class c lays it out; v holds, in
\* this order: type, flags, offset, vaddr, paddr, filesz, memsz, align
ProgramWire(c, v, enc) ==
    IF c = 2
    THEN    Wire(v[1], 4, enc) \o Wire(v[2], 4, enc) \o Wire(v[3], 8, enc)
         \o Wire(v[4], 8, enc) \o Wire(v[5], 8, enc) \o Wire(v[6], 8, enc)
         \o Wire(v[7], 8, enc) \o Wire(v[8], 8, enc)
    ELSE    Wire(v[1], 4, enc) \o Wire(v[3], 4, enc) \o Wire(v[4], 4, enc)
         \o Wire(v[5], 4, enc) \o Wire(v[6], 4, enc) \o Wire(v[7], 4, enc)
         \o Wire(v[2], 4, enc) \o Wire(v[8], 4, enc)

\* a section-header entry as a writer of class c lays it out; v holds: name,
\* type, flags, addr, offset, size, link, info, addralign, entsize
SectionWire(c, v, enc) ==
    LET n == IF c = 2 THEN 8 ELSE 4
    IN      Wire(v[1], 4, enc) \o Wire(v[2], 4, enc) \o Wire(v[3], n, enc)
         \o Wire(v[4], n, enc) \o Wire(v[5], n, enc) \o Wire(v[6], n, enc)
         \o Wire(v[7], 4, enc) \o Wire(v[8], 4, enc) \o Wire(v[9], n, enc)
         \o Wire(v[10], n, enc)

\* the slice of an entry, whole (cut = 0), one byte short or one byte long
MkSlice(p) ==
    LET whole == IF p.kind = "ELFProgramHeader" THEN ProgramWire(p.wcls, p.vals, p.wenc)
                 ELSE SectionWire(p.wcls, p.vals, p.wenc)
    IN  IF p.cut < 0 THEN SubSeq(whole, 1, Len(whole) - 1)
        ELSE IF p.cut > 0 THEN whole \o <<255>>
        ELSE whole

\* the identification block the caller passes to from_bytes and size
IdentOf(c, e) == e_ident_init(Magic, c, e, Num(1), Num(0), Num(0)).val

EntryParams ==
    {[family |-> "entry", kind |-> k, wcls |-> wc, wenc |-> we, vals |-> Logical(v, st),
      cut |-> ct, e_ident |-> IdentOf(Num(c), Num(e))] :
        k \in {"ELFSectionHeader", "ELFProgramHeader"}, wc \in {1, 2}, we \in {1, 2},
        v \in 0..MaxVal, st \in {0, 1, 70000}, ct \in {-1, 0, 1},
        c \in {1, 2}, e \in {1, 2}}

InitEntry ==
    /\ \E p \in EntryParams : arg = p /\ fd = MkSlice(p)
    /\ pos = 0
    /\ byteorder \in {"little", "big"}
    /\ op = "init"
    /\ res = Nothing
    /\ out = Nothing

\* obj = ELFSectionHeader.from_bytes(data, e_ident)
SectionFromBytes ==
    /\ op = "init"
    /\ res' = from_bytes("ELFSectionHeader", fd, arg.e_ident, byteorder)
    /\ op' = "ELFSectionHeader.from_bytes"
    /\ UNCHANGED <<fd, pos, byteorder, arg, out>>

\* obj = ELFProgramHeader.from_bytes(data, e_ident)
ProgramFromBytes ==
    /\ op = "init"
    /\ res' = from_bytes("ELFProgramHeader", fd, arg.e_ident, byteorder)
    /\ op' = "ELFProgramHeader.from_bytes"
    /\ UNCHANGED <<fd, pos, byteorder, arg, out>>

\* bytes(obj) on the entry decoded
EntryBytes ==
    /\ op \in {"ELFSectionHeader.from_bytes", "ELFProgramHeader.from_bytes"}
    /\ IsOk(res)
    /\ out' = entry_bytes(res.val, byteorder)
    /\ op' = "entry.__bytes__"
    /\ UNCHANGED <<fd, pos, byteorder, arg, res>>

\* ELFSectionHeader.size(e_ident)
SectionSize ==
    /\ op = "init"
    /\ res' = size("ELFSectionHeader", arg.e_ident)
    /\ op' = "ELFSectionHeader.size"
    /\ UNCHANGED <<fd, pos, byteorder, arg, out>>

\* ELFProgramHeader.size(e_ident)
ProgramSize ==
    /\ op = "init"
    /\ res' = size("ELFProgramHeader", arg.e_ident)
    /\ op' = "ELFProgramHeader.size"
    /\ UNCHANGED <<fd, pos, byteorder, arg, out>>

\* len(header) for a header of this identification block
HeaderLen ==
    /\ op = "init"
    /\ res' = ELFHeader_len(arg.e_ident)
    /\ op' = "ELFHeader.__len__"
    /\ UNCHANGED <<fd, pos, byteorder, arg, out>>

NextEntry ==
    \/ SectionFromBytes
    \/ ProgramFromBytes
    \/ EntryBytes
    \/ SectionSize
    \/ ProgramSize
    \/ HeaderLen

SpecEntry == InitEntry /\ [][NextEntry]_vars

----------------------------------------------------------------------------
(* Symbolic value resolution and the constructors that resolve fields *)

MaxRaw == 8      \* raw field values range over 0..MaxRaw and a few larger ones

RawValues == (0..MaxRaw) \cup {62, 99}

FlagValues == (0..MaxRaw) \cup {1048576, 267386880, 267386881}

InitResolve ==
    /\ fd = <<>>
    /\ pos = 0
    /\ byteorder = "little"
    /\ op = "init"
    /\ arg = None
    /\ res = Nothing
    /\ out = Nothing

\* cls.from_value(value)
FromValue ==
    \E cls \in Kinds, v \in RawValues \cup FlagValues :
        /\ op = "init"
        /\ arg' = [cls |-> cls, value |-> v]
        /\ res' = from_value(cls, Num(v))
        /\ op' = "from_value"
        /\ UNCHANGED <<fd, pos, byteorder, out>>

\* cls.from_value_fallback(value)
FromValueFallback ==
    \E cls \in Kinds, v \in RawValues \cup FlagValues :
        /\ op = "init"
        /\ arg' = [cls |-> cls, value |-> v]
        /\ res' = from_value_fallback(cls, Num(v))
        /\ op' = "from_value_fallback"
        /\ UNCHANGED <<fd, pos, byteorder, out>>

\* SHF.from_value(value) == SHF.<flag>
FlagMatchEqFlag ==
    \E v \in FlagValues, i \in 1..Len(Attributes("SHF")) :
        /\ op = "init"
        /\ arg' = [cls |-> "SHF", value |-> v, flag |-> Attributes("SHF")[i][2]]
        /\ res' = Ok(PyEq(from_value("SHF", Num(v)).val, EnumMeta_new("SHF")[i]))
        /\ op' = "flagmatch == flag"
        /\ UNCHANGED <<fd, pos, byteorder, out>>

\* SHF.<flag> == SHF.from_value(value)
FlagEqFlagMatch ==
    \E v \in FlagValues, i \in 1..Len(Attributes("SHF")) :
        /\ op = "init"
        /\ arg' = [cls |-> "SHF", value |-> v, flag |-> Attributes("SHF")[i][2]]
        /\ res' = Ok(PyEq(EnumMeta_new("SHF")[i], from_value("SHF", Num(v)).val))
        /\ op' = "flag == flagmatch"
        /\ UNCHANGED <<fd, pos, byteorder, out>>

\* ELFHeader.types.e_ident(magic, class, encoding, version, os_abi, abi_version)
IdentInit ==
    \E c \in 0..3, d \in 0..3, v \in {0, 1, 7}, o \in {0, 3, 9} :
        /\ op = "init"
        /\ arg' = [cls |-> c, enc |-> d, ver |-> v, osabi |-> o, abiver |-> v]
        /\ res' = e_ident_init(Magic, Num(c), Num(d), Num(v), Num(o), Num(v))
        /\ op' = "e_ident.__init__"
        /\ UNCHANGED <<fd, pos, byteorder, out>>

\* ELFHeader(e_ident, type, machine, version, ..., ehsize, ..., shentsize, ...)
HeaderInit ==
    \E c \in {1, 2}, d \in {1, 2}, t \in {2, 3, 9}, m \in {3, 62, 99}, v \in {0, 1, 7},
       eh \in {52, 64}, sh \in {40, 64} :
        /\ op = "init"
        /\ arg' = [cls |-> c, enc |-> d, type |-> t, machine |-> m, version |-> v,
                   ehsize |-> eh, shentsize |-> sh]
        /\ res' = ELFHeader_init(IdentOf(Num(c), Num(d)),
                      <<Num(t), Num(m), Num(v), Num(4096), Num(0), Num(0), Num(0),
                        Num(eh), Num(WirePhentsize(c)), Num(0), Num(sh), Num(0), Num(0)>>)
        /\ op' = "ELFHeader.__init__"
        /\ UNCHANGED <<fd, pos, byteorder, out>>

\* ELFSectionHeader(e_ident, name, type, flags, ...)
SectionInit ==
    \E c \in {1, 2}, d \in {1, 2}, t \in RawValues, f \in FlagValues :
        /\ op = "init"
        /\ arg' = [cls |-> c, enc |-> d, type |-> t, flags |-> f]
        /\ res' = ELFSectionHeader_init(IdentOf(Num(c), Num(d)),
                      <<Num(1), Num(t), Num(f), Num(0), Num(0), Num(0), Num(0),
                        Num(0), Num(0), Num(0)>>)
        /\ op' = "ELFSectionHeader.__init__"
        /\ UNCHANGED <<fd, pos, byteorder, out>>

NextResolve ==
    \/ FromValue
    \/ FromValueFallback
    \/ FlagMatchEqFlag
    \/ FlagEqFlagMatch
    \/ IdentInit
    \/ HeaderInit
    \/ SectionInit

SpecResolve == InitResolve /\ [][NextResolve]_vars

----------------------------------------------------------------------------
(* Claims about decoding a stream (checked under Spec) *)

\* what the stream's writer intended: a whole stream that starts with the magic
WholeFile == arg.family = "file" /\ arg.trunc < 0 /\ arg.magic = Magic

InTable(cls, v) == \E i \in 1..Len(Attributes(cls)) : Attributes(cls)[i][2] = v

\* C1, as claimed: serializing a decoded container gives back the input, byte
\* for byte, whatever the identification padding bytes and the body hold.
C1_RoundTripAnyPadding ==
    op = "ELF.__bytes__" => IsOk(out) /\ out.val = fd

\* C1, amended: serializing a decoded container succeeds and gives back the
\* input byte for byte when the 8 bytes the decoder discards after the five
\* identification fields (stream offsets 9 to 16) are zero; the body is
\* reproduced whatever it holds.
C1_RoundTripZeroPadding ==
    /\ op = "ELF.__bytes__" /\ (\A i \in 10..17 : fd[i] = 0)
            => IsOk(out) /\ out.val = fd
    /\ op = "ELF.__bytes__"
            => /\ IsOk(out)
               /\ Len(out.val) = Len(fd)
               /\ \A i \in 1..Len(fd) : i \notin 10..17 => out.val[i] = fd[i]

\* C1 witness: a container with both tables and a non-zero body round-trips
C1_Witness ==
    /\ op = "ELF.__bytes__"
    /\ out.val = fd
    /\ Len(res.val.section_headers) > 1
    /\ Len(res.val.program_headers) > 0
    /\ \E i \in 1..Len(res.val.data) : res.val.data[i] # 0

\* C2: a stream whose first 4 bytes are not the magic (a stream shorter than
\* 4 bytes included) makes every decoder fail with NotAnELF, whatever follows,
\* and nothing past those 4 bytes has been read when it fails.
C2_NotAnELF ==
    /\ op \in {"e_ident.from_fd", "ELFHeader.from_fd", "ELF.from_fd"}
    /\ SubSeq(fd, 1, Min(4, Len(fd))) # <<127, 69, 76, 70>>
    => /\ res.err = NotAnELF
       /\ res.val = None
       /\ pos = Min(4, Len(fd))

\* C2 witness: a whole file whose first byte is not the magic's was given to
\* ELF.from_fd and refused as not an ELF
C2_Witness ==
    /\ op = "ELF.from_fd"
    /\ res.err = NotAnELF
    /\ Len(fd) > 52
    /\ fd[1] # 127

HeaderDecoded == IF op = "ELF.from_fd" THEN res.val.header ELSE res.val

\* decoding reaches the size validation of ELFHeader.__post_init__
ReachesValidation ==
    /\ WholeFile /\ arg.padlen = 8
    /\ InTable("ELFCLASS", arg.cls) /\ arg.enc = 1 /\ InTable("OSABI", arg.osabi)
    /\ InTable("ET", arg.type) /\ InTable("EM", arg.machine)

SectionRangeOutside ==
    /\ arg.shnum > 0
    /\ \/ arg.shoff - WireEhsize(arg.cls) < 0
       \/ arg.shoff - WireEhsize(arg.cls) + arg.shnum * arg.shentsize > arg.bodylen

ProgramRangeOutside ==
    /\ arg.phnum > 0
    /\ \/ arg.phoff - WireEhsize(arg.cls) < 0
       \/ arg.phoff - WireEhsize(arg.cls) + arg.phnum * arg.phentsize > arg.bodylen

\* C7, as claimed: ELF.from_fd returns no container when a table with entries
\* has a range that is not inside the body.
C7_OutOfRangeTableFails ==
    /\ op = "ELF.from_fd"
    /\ ReachesValidation
    /\ SectionRangeOutside \/ ProgramRangeOutside
    => ~IsOk(res)

\* C10, as claimed: e_ident.from_fd leaves the stream at offset 16,
\* bytes(e_ident) has 16 = len(e_ident) bytes and the encoded file header
\* has len(header) bytes.
C10_IdentIs16Bytes ==
    /\ op = "e_ident.from_fd" /\ IsOk(res) => pos = 16
    /\ op = "e_ident.__bytes__" =>
            Len(out.val) = 16 /\ Len(out.val) = e_ident_len(res.val)
    /\ op = "ELFHeader.__bytes__" =>
            Len(out.val) = ELFHeader_len(res.val.e_ident).val

----------------------------------------------------------------------------
(* Claims about single entries and record sizes (checked under SpecEntry) *)

\* the class and encoding of the identification block passed by the caller
ArgIs64 == arg.e_ident.file_class.value = <<2>>

\* C4, as claimed: for all four (class, encoding) combinations the record
\* sizes are computed without error and are 52 / 64 (file header), 40 / 64
\* (section-header entry) and 32 / 56 (program-header entry).
C4_RecordSizes ==
    /\ op = "ELFHeader.__len__"
            => IsOk(res) /\ res.val = (IF ArgIs64 THEN 64 ELSE 52)
    /\ op = "ELFSectionHeader.size"
            => IsOk(res) /\ res.val = (IF ArgIs64 THEN 64 ELSE 40)
    /\ op = "ELFProgramHeader.size"
            => IsOk(res) /\ res.val = (IF ArgIs64 THEN 56 ELSE 32)

\* the unsigned value of the w bytes at offset off of the slice, in the byte
\* order struct uses for a format without a prefix
WireAt(off, w) ==
    LET raw == SubSeq(fd, off + 1, off + w)
    IN  Norm(IF byteorder = "little" THEN raw ELSE Reverse(raw))

\* the slice was written for the class of the identification block, whole,
\* in the byte order the decoder reads
WrittenForReader ==
    /\ arg.kind = "ELFProgramHeader"
    /\ arg.cut = 0
    /\ arg.wcls = (IF ArgIs64 THEN 2 ELSE 1)
    /\ arg.wenc = (IF byteorder = "little" THEN 1 ELSE 2)

\* C5: a decoded program-header entry holds, in each named field, the wire
\* value at the field's position for the class: (type, offset, vaddr, paddr,
\* filesz, memsz, flags, align) under 32-bit and (type, flags, offset, vaddr,
\* paddr, filesz, memsz, align) under 64-bit; so a slice written from logical
\* field values in the wire order of its class decodes to exactly these
\* values, the same under both classes.
C5_ProgramHeaderFieldOrder ==
    op = "ELFProgramHeader.from_bytes" /\ IsOk(res) =>
        LET e == res.val
        IN  /\ ~ArgIs64 =>
                /\ e.p_type.value   = WireAt(0, 4)
                /\ e.p_offset.value = WireAt(4, 4)
                /\ e.p_vaddr.value  = WireAt(8, 4)
                /\ e.p_paddr.value  = WireAt(12, 4)
                /\ e.p_filesz.value = WireAt(16, 4)
                /\ e.p_memsz.value  = WireAt(20, 4)
                /\ e.p_flags.value  = WireAt(24, 4)
                /\ e.p_align.value  = WireAt(28, 4)
            /\ ArgIs64 =>
                /\ e.p_type.value   = WireAt(0, 4)
                /\ e.p_flags.value  = WireAt(4, 4)
                /\ e.p_offset.value = WireAt(8, 8)
                /\ e.p_vaddr.value  = WireAt(16, 8)
                /\ e.p_paddr.value  = WireAt(24, 8)
                /\ e.p_filesz.value = WireAt(32, 8)
                /\ e.p_memsz.value  = WireAt(40, 8)
                /\ e.p_align.value  = WireAt(48, 8)
            /\ WrittenForReader =>
                /\ e.p_type.value   = Num(arg.vals[1])
                /\ e.p_flags.value  = Num(arg.vals[2])
                /\ e.p_offset.value = Num(arg.vals[3])
                /\ e.p_vaddr.value  = Num(arg.vals[4])
                /\ e.p_paddr.value  = Num(arg.vals[5])
                /\ e.p_filesz.value = Num(arg.vals[6])
                /\ e.p_memsz.value  = Num(arg.vals[7])
                /\ e.p_align.value  = Num(arg.vals[8])

\* C5 witness: a 32-bit entry whose flags, seventh on the wire, differ from
\* every other field and are decoded into p_flags
C5_Witness ==
    /\ op = "ELFProgramHeader.from_bytes" /\ IsOk(res)
    /\ ~ArgIs64 /\ WrittenForReader
    /\ arg.vals[2] # arg.vals[3] /\ arg.vals[2] # arg.vals[7]
    /\ res.val.p_flags.value = Num(arg.vals[2])
    /\ res.val.p_flags.value = WireAt(24, 4)

\* C9, as claimed: encoding an entry decoded from a slice of exactly the
\* record size succeeds and returns the slice.
C9_EntryEncodeRoundTrip ==
    op = "entry.__bytes__" => IsOk(out) /\ out.val = fd

----------------------------------------------------------------------------
(* Claims about symbolic values (checked under SpecResolve) *)

\* C6, as claimed: comparing the flag-match value of v with a known flag f,
\* in either operand order, is true iff f # 0 and (v AND f) = f.
C6_FlagEqIsContainment ==
    op \in {"flagmatch == flag", "flag == flagmatch"} =>
        res.val = (arg.flag # 0 /\ BitAnd(arg.value, arg.flag) = arg.flag)

\* r is the named value of the table for v
Resolved(r, cls, v) ==
    /\ r.value = Num(v)
    /\ r.tag = "_EnumItem"
    /\ \E i \in 1..Len(Attributes(cls)) :
            Attributes(cls)[i][2] = v /\ Attributes(cls)[i][1] = r.name

NotFound(cls, v) == ValueError("Item not found", Num(v), cls)

\* C8: a value the table lacks raises the unknown-value error, naming the
\* value and the kind, exactly in the strict fields (class, encoding, OS/ABI,
\* file type, machine); in the fallback fields (header version, section type)
\* it never raises and the field keeps the raw integer; a value the table
\* holds resolves, under both policies, to a named value of the same integer.
C8_ResolutionPolicy ==
    /\ op = "from_value" /\ item_cls(arg.cls) = "_EnumItem" =>
            IF InTable(arg.cls, arg.value)
            THEN IsOk(res) /\ Resolved(res.val, arg.cls, arg.value)
            ELSE res.err = NotFound(arg.cls, arg.value) /\ res.val = None
    /\ op = "from_value_fallback" /\ item_cls(arg.cls) = "_EnumItem" =>
            /\ IsOk(res)
            /\ res.val.value = Num(arg.value)
            /\ IF InTable(arg.cls, arg.value)
               THEN Resolved(res.val, arg.cls, arg.value)
               ELSE res.val = IntVal(Num(arg.value))
    /\ op = "e_ident.__init__" =>
            /\ IsOk(res) <=> /\ InTable("ELFCLASS", arg.cls)
                             /\ InTable("ELFDATA", arg.enc)
                             /\ InTable("OSABI", arg.osabi)
            /\ ~IsOk(res) => res.err \in
                    {NotFound(k[1], k[2]) :
                        k \in {x \in {<<"ELFCLASS", arg.cls>>, <<"ELFDATA", arg.enc>>,
                                      <<"OSABI", arg.osabi>>} : ~InTable(x[1], x[2])}}
            /\ IsOk(res) => /\ Resolved(res.val.file_class, "ELFCLASS", arg.cls)
                            /\ Resolved(res.val.data_encoding, "ELFDATA", arg.enc)
                            /\ Resolved(res.val.os_abi, "OSABI", arg.osabi)
    /\ op = "ELFHeader.__init__" =>
            /\ ~InTable("ET", arg.type) => res.err = NotFound("ET", arg.type)
            /\ InTable("ET", arg.type) /\ ~InTable("EM", arg.machine)
                    => res.err = NotFound("EM", arg.machine)
            /\ ~IsOk(res) => res.err.kind # "EV"
            /\ IsOk(res) =>
                    /\ Resolved(res.val.e_type, "ET", arg.type)
                    /\ Resolved(res.val.e_machine, "EM", arg.machine)
                    /\ res.val.e_version.value = Num(arg.version)
                    /\ IF InTable("EV", arg.version)
                       THEN Resolved(res.val.e_version, "EV", arg.version)
                       ELSE res.val.e_version = IntVal(Num(arg.version))
    /\ op = "ELFSectionHeader.__init__" =>
            /\ IsOk(res)
            /\ res.val.sh_type.value = Num(arg.type)
            /\ IF InTable("SHT", arg.type)
               THEN Resolved(res.val.sh_type, "SHT", arg.type)
               ELSE res.val.sh_type = IntVal(Num(arg.type))

\* C8 witness: a header whose version the table lacks is built, its version
\* kept as the raw integer, while its type and machine resolved to names
C8_Witness ==
    /\ op = "ELFHeader.__init__" /\ IsOk(res)
    /\ ~InTable("EV", arg.version)
    /\ res.val.e_version = IntVal(Num(arg.version))
    /\ res.val.e_type.tag = "_EnumItem"

====
